---- MODULE Spec2Model ----
(***************************************************************************)
(* A model of iso-freeze: the normalisation of a `pip install --report`   *)
(* document into PyPackage records (get_requirements.py), the sync of an  *)
(* environment with those records (sync.py, lib.py), the rendering of the *)
(* records as a requirements file (pin_requirements.py), the reading of   *)
(* the dependencies of a pyproject.toml dictionary (read_toml), and main  *)
(* with its command line and pip version checks (cli.py).                  *)
(*                                                                         *)
(* Python strings are modelled as sequences of one-character strings, so   *)
(* that formatting (f"{name}=={version}"), str.replace and str.lower are   *)
(* computed character by character.                                        *)
(***************************************************************************)
EXTENDS FiniteSets, Integers, Sequences, TLC

VARIABLES
    pc,                  \* position of the running function
    requirements,        \* sync(requirements=...): list[PyPackage]
    pip_list_output,     \* json.loads of `pip list --format json`
    installed_packages,  \* sync: installed_packages
    additional_packages, \* sync: additional_packages
    calls,               \* the run_pip invocations issued so far, in order
    pip_report,          \* read_pip_report(pip_report=...)
    dependencies,        \* what read_pip_report returned
    arguments,           \* the parsed command line: file, dependency, sync, hashes
    file_contents,       \* pin_requirements: output_file_contents
    output_file,         \* the text of the output file, None until written
    environment,         \* the packages pip has installed, once pip has listed them
    argv,                \* the command line, as argparse reads it
    files,               \* the working directory: what each path is
    pip_version_output,  \* the output of `pip --version`, None until captured
    toml_file,           \* the dictionary as tomllib loaded it
    toml_dict,           \* read_toml(toml_dict=...): the same dictionary, live
    toml_calls           \* the read_toml calls made on toml_dict, in order

vars == <<pc, requirements, pip_list_output, installed_packages,
          additional_packages, calls, pip_report, dependencies,
          arguments, file_contents, output_file, environment, argv, files,
          pip_version_output, toml_file, toml_dict, toml_calls>>

syncVars == <<requirements, pip_list_output, installed_packages,
              additional_packages, calls, environment>>

reportVars == <<pip_report, dependencies>>

pinVars == <<arguments, file_contents, output_file>>

cliVars == <<argv, files, pip_version_output>>

tomlVars == <<toml_file, toml_dict, toml_calls>>

-----------------------------------------------------------------------------
(* Bounds *)

MaxInstalled == 4      \* entries in the `pip list` output
MaxRequirements == 2   \* records in the list passed to sync
MaxInstall == 2        \* entries in the report's `install` collection

-----------------------------------------------------------------------------
(* Strings *)

Range(s) == {s[i] : i \in 1..Len(s)}

pip == <<"p", "i", "p">>
setuptools == <<"s", "e", "t", "u", "p", "t", "o", "o", "l", "s">>
cowsay == <<"c", "o", "w", "s", "a", "y">>
tomli == <<"t", "o", "m", "l", "i">>
Tomli == <<"T", "o", "m", "l", "i">>
pyjokes == <<"p", "y", "j", "o", "k", "e", "s">>
iso_freeze == <<"i", "s", "o", "-", "f", "r", "e", "e", "z", "e">>

v2_0_1 == <<"2", ".", "0", ".", "1">>
v0_6_0 == <<"0", ".", "6", ".", "0">>
v22_2 == <<"2", "2", ".", "2">>
v5_0 == <<"5", ".", "0">>
v0_0_7 == <<"0", ".", "0", ".", "7">>

sha256_1234 == <<"s", "h", "a", "2", "5", "6", ":", "1", "2", "3", "4">>
sha256_5678 == <<"s", "h", "a", "2", "5", "6", ":", "5", "6", "7", "8">>
sha256eq1234 == <<"s", "h", "a", "2", "5", "6", "=", "1", "2", "3", "4">>
md5eq5678 == <<"m", "d", "5", "=", "5", "6", "7", "8">>


UpperCase ==
    <<"A", "B", "C", "D", "E", "F", "G", "H", "I", "J", "K", "L", "M", "N",
      "O", "P", "Q", "R", "S", "T", "U", "V", "W", "X", "Y", "Z">>
LowerCase ==
    <<"a", "b", "c", "d", "e", "f", "g", "h", "i", "j", "k", "l", "m", "n",
      "o", "p", "q", "r", "s", "t", "u", "v", "w", "x", "y", "z">>

\* str.lower, one character
LowerChar(c) ==
    IF c \in Range(UpperCase)
    THEN LowerCase[CHOOSE i \in 1..Len(UpperCase) : UpperCase[i] = c]
    ELSE c

Lower(s) == [i \in 1..Len(s) |-> LowerChar(s[i])]

\* str.replace with its two arguments exchanged
Replace_swapped(s, old, new) == [i \in 1..Len(s) |-> IF s[i] = new THEN old ELSE s[i]]

\* str.replace(old, new) for one-character old and new: every occurrence
Replace(s, old, new) == [i \in 1..Len(s) |-> IF s[i] = old THEN new ELSE s[i]]

-----------------------------------------------------------------------------
(* lib.py *)

\* Optional[...]: None and a present value share one shape
None == [isNone |-> TRUE, value |-> <<>>]
Some(v) == [isNone |-> FALSE, value |-> v]

\* @dataclass PyPackage, with its defaults requested=False, hash=None
PyPackage(name, version, requested, hash) ==
    [name |-> name, version |-> version, requested |-> requested, hash |-> hash]

PyPackageDefault(name, version) == PyPackage(name, version, FALSE, None)

\* How one subprocess can end: exit status 0, a non-zero exit status, or the
\* interpreter cannot be started at all (OSError from subprocess)
Outcomes == {"ok", "nonzero", "unreachable"}

\* run_pip: what the caller observes.  subprocess.check_output raises
\* CalledProcessError on a non-zero exit, which run_pip turns into sys.exit();
\* subprocess.run(command) is called without check=True and returns normally
\* whatever the exit status.  An OSError is not caught in either branch.
run_pip(check_output, outcome) ==
    IF outcome = "unreachable" THEN "raise"
    ELSE IF check_output /\ outcome = "nonzero" THEN "SystemExit"
    ELSE "return"

\* One issued run_pip invocation, with the way its subprocess ended
Call(command, args, check_output, outcome) ==
    [command |-> command, args |-> args, check_output |-> check_output,
     outcome |-> outcome]

-----------------------------------------------------------------------------
(* sync.py *)

\* get_installed_packages keeping every field of the entry
get_installed_packages_all_fields(output) ==
    [i \in 1..Len(output) |-> output[i] @@ [requested |-> FALSE, hash |-> None]]

\* get_installed_packages: name and version of each entry, defaults otherwise
get_installed_packages(output) ==
    [i \in 1..Len(output) |-> PyPackageDefault(output[i].name, output[i].version)]

Protected == {pip, setuptools}

\* get_additional_packages without the exception for the default packages
get_additional_packages_unprotected(installed, to_install) ==
    LET installed_names_only == [i \in 1..Len(installed) |-> installed[i].name]
        to_install_names_only == [i \in 1..Len(to_install) |-> to_install[i].name]
        keep(package) == package \notin Range(to_install_names_only)
    IN SelectSeq(installed_names_only, keep)

\* get_additional_packages collecting the names last to first
get_additional_packages_reversed(installed, to_install) ==
    LET installed_names_only ==
            [i \in 1..Len(installed) |-> installed[Len(installed) + 1 - i].name]
        to_install_names_only == [i \in 1..Len(to_install) |-> to_install[i].name]
        keep(package) == /\ package \notin Range(to_install_names_only)
                         /\ package \notin Protected
    IN SelectSeq(installed_names_only, keep)

\* get_additional_packages with `in` where the code has `not in`
get_additional_packages_inverted(installed, to_install) ==
    LET installed_names_only == [i \in 1..Len(installed) |-> installed[i].name]
        to_install_names_only == [i \in 1..Len(to_install) |-> to_install[i].name]
        keep(package) == /\ package \in Range(to_install_names_only)
                         /\ package \notin Protected
    IN SelectSeq(installed_names_only, keep)

\* get_additional_packages: installed names not in to_install, `in` on lists
\* of str compares with ==, the two default packages excepted
get_additional_packages(installed, to_install) ==
    LET installed_names_only == [i \in 1..Len(installed) |-> installed[i].name]
        to_install_names_only == [i \in 1..Len(to_install) |-> to_install[i].name]
        keep(package) == /\ package \notin Range(to_install_names_only)
                         /\ package \notin Protected
    IN SelectSeq(installed_names_only, keep)

\* format_package_list writing a single `=`
format_package_list_single_equals(packages) ==
    [i \in 1..Len(packages) |->
        packages[i].name \o <<"=">> \o packages[i].version]

\* format_package_list: f"{package.name}=={package.version}"
format_package_list(packages) ==
    [i \in 1..Len(packages) |->
        packages[i].name \o <<"=", "=">> \o packages[i].version]

\* sync installing before it removes
sync_next_install_first(at, additional) ==
    CASE at = "sync" -> "install_pip_report_output"
      [] at = "install_pip_report_output" ->
            IF additional # <<>> THEN "remove_additional_packages" ELSE "done"
      [] at = "remove_additional_packages" -> "done"

\* sync without its `if additional_packages:`
sync_next_always_remove(at, additional) ==
    CASE at = "sync" -> "remove_additional_packages"
      [] at = "remove_additional_packages" -> "install_pip_report_output"
      [] at = "install_pip_report_output" -> "done"

\* sync, statement order: where control goes after the step at position `at`
sync_next(at, additional) ==
    CASE at = "sync" ->
            IF additional # <<>>
            THEN "remove_additional_packages"
            ELSE "install_pip_report_output"
      [] at = "remove_additional_packages" -> "install_pip_report_output"
      [] at = "install_pip_report_output" -> "done"

PipListCommand ==
    <<"python3", "-m", "pip", "list", "--format", "json", "--exclude-editable">>
PipUninstallCommand == <<"python3", "-m", "pip", "uninstall", "-y">>
PipInstallCommand == <<"python3", "-m", "pip", "install", "--upgrade">>

-----------------------------------------------------------------------------
(* What the commands of sync.py do to the environment: a map from package
   name to version, kept as the list of its name and version pairs in the
   order in which pip lists them *)

\* What the environment keeps of one listed distribution
Installed(entry) == [name |-> entry.name, version |-> entry.version]

\* The environment a `pip list` output shows
Listed(output) == [i \in 1..Len(output) |-> Installed(output[i])]

\* pip compares distribution names whatever their case
SameDistribution(a, b) == Lower(a) = Lower(b)

\* `pip uninstall -y name ...`: the named distributions are removed
PipUninstall(env, names) ==
    SelectSeq(env, LAMBDA e :
        \A i \in 1..Len(names) : ~SameDistribution(e.name, names[i]))

\* Where a requirement string has its `==`
SpecifierAt(requirement) ==
    {k \in 1..(Len(requirement) - 1) :
        requirement[k] = "=" /\ requirement[k + 1] = "="}

\* name==version read back as a name and a version
ParseRequirement(requirement) ==
    LET k == CHOOSE k \in SpecifierAt(requirement) :
                 \A j \in SpecifierAt(requirement) : k <= j
    IN [name |-> SubSeq(requirement, 1, k - 1),
        version |-> SubSeq(requirement, k + 2, Len(requirement))]

\* `pip install --upgrade name==version ...`: each listed distribution is at
\* its pinned version afterwards, the others are left alone; a string that
\* is not name==version is rejected and nothing is installed
PipInstallUpgrade(env, to_install) ==
    IF \E i \in 1..Len(to_install) : SpecifierAt(to_install[i]) = {}
    THEN env
    ELSE LET pinned == [i \in 1..Len(to_install) |-> ParseRequirement(to_install[i])]
             pin_of(e) == {k \in 1..Len(pinned) : SameDistribution(e.name, pinned[k].name)}
             is_new(p) == \A i \in 1..Len(env) : ~SameDistribution(env[i].name, p.name)
         IN [i \in 1..Len(env) |->
                IF pin_of(env[i]) # {}
                THEN pinned[CHOOSE k \in pin_of(env[i]) : TRUE]
                ELSE env[i]]
              \o SelectSeq(pinned, is_new)

\* The environment after a request: one that fails is taken to change nothing
After(outcome, env, changed) == IF outcome = "ok" THEN Some(changed) ELSE env

-----------------------------------------------------------------------------
(* Inputs of sync *)

v65_0 == <<"6", "5", ".", "0">>
v4_0 == <<"4", ".", "0">>
project_location == <<"/", "i", "s", "o", "-", "f", "r", "e", "e", "z", "e">>

\* Entries `pip list --format json` can print for what is there before sync
InstalledEntries ==
    {[name |-> pip, version |-> v22_2],
     [name |-> setuptools, version |-> v65_0],
     [name |-> cowsay, version |-> v4_0],
     [name |-> tomli, version |-> v2_0_1],
     [name |-> Tomli, version |-> v2_0_1],
     [name |-> iso_freeze, version |-> v0_0_7,
      editable_project_location |-> project_location]}

\* Records the report of a resolution can yield
DesiredPackages ==
    {PyPackage(tomli, v2_0_1, TRUE, Some(sha256_1234)),
     PyPackage(pyjokes, v0_6_0, TRUE, Some(sha256_5678)),
     PyPackage(pip, v22_2, FALSE, Some(sha256_1234)),
     PyPackage(cowsay, v5_0, FALSE, Some(sha256_5678))}

SeqsUpTo(S, n) == UNION {[1..k -> S] : k \in 0..n}

\* One distribution is listed once: names are distinct, whatever their case
DistinctNames(s) ==
    \A i, j \in 1..Len(s) : i # j => Lower(s[i].name) # Lower(s[j].name)

PipListOutputs == {s \in SeqsUpTo(InstalledEntries, MaxInstalled) : DistinctNames(s)}

\* main calls sync only with a non-empty list
RequirementsLists ==
    {s \in SeqsUpTo(DesiredPackages, MaxRequirements) : s # <<>> /\ DistinctNames(s)}

\* `pip list --format json` on an environment pip has listed before: the
\* same distributions in the same order, each entry as it was printed
Listing(env) ==
    [i \in 1..Len(env) |->
        IF \E entry \in InstalledEntries : Installed(entry) = env[i]
        THEN CHOOSE entry \in InstalledEntries : Installed(entry) = env[i]
        ELSE env[i]]

NoReport == [version |-> "1"]

\* What the variables of the command line and of read_toml hold where
\* neither is running
NoArgv == <<>>
NoFiles == <<>>
NoToml == <<>>

-----------------------------------------------------------------------------
(* sync.py: sync, one action per external invocation *)

InitSync ==
    /\ pc = "sync"
    /\ requirements \in RequirementsLists
    /\ pip_list_output = <<>>
    /\ installed_packages = <<>>
    /\ additional_packages = <<>>
    /\ calls = <<>>
    /\ pip_report = NoReport
    /\ dependencies = None
    /\ arguments = [sync |-> TRUE, hashes |-> FALSE]
    /\ file_contents = <<>>
    /\ output_file = None
    /\ environment = None
    /\ argv = NoArgv
    /\ files = NoFiles
    /\ pip_version_output = None
    /\ toml_file = NoToml
    /\ toml_dict = NoToml
    /\ toml_calls = <<>>

\* sync, lines 17-23: the snapshot (get_pip_list_output through run_pip with
\* check_output=True), get_installed_packages and get_additional_packages
SyncSnapshot ==
    /\ pc = "sync"
    /\ \E outcome \in Outcomes,
          output \in (IF environment.isNone
                      THEN PipListOutputs
                      ELSE {Listing(environment.value)}) :
          LET result == run_pip(TRUE, outcome)
              installed == get_installed_packages(output)
              additional == get_additional_packages(installed, requirements)
          IN /\ calls' = Append(calls, Call(PipListCommand, <<>>, TRUE, outcome))
             /\ IF result = "return"
                THEN /\ pip_list_output' = output
                     /\ installed_packages' = installed
                     /\ additional_packages' = additional
                     /\ environment' = Some(Listed(output))
                     /\ pc' = sync_next(pc, additional)
                ELSE /\ pc' = IF result = "SystemExit" THEN "SystemExit" ELSE "Traceback"
                     /\ UNCHANGED <<pip_list_output, installed_packages,
                                    additional_packages, environment>>
    /\ UNCHANGED <<requirements, reportVars, pinVars, cliVars, tomlVars>>

\* remove_additional_packages issuing one uninstall per package
RemoveAdditionalPackages_per_package ==
    /\ pc = "remove_additional_packages"
    /\ \E outcome \in Outcomes :
          LET removed == Len(SelectSeq(calls, LAMBDA c : c.command = PipUninstallCommand))
          IN /\ calls' = Append(calls, Call(PipUninstallCommand,
                                            <<additional_packages[removed + 1]>>,
                                            FALSE, outcome))
             /\ environment' =
                    After(outcome, environment,
                          PipUninstall(environment.value,
                                       <<additional_packages[removed + 1]>>))
             /\ pc' = IF run_pip(FALSE, outcome) = "return"
                      THEN IF removed + 1 = Len(additional_packages)
                           THEN sync_next(pc, additional_packages)
                           ELSE pc
                      ELSE "Traceback"
    /\ UNCHANGED <<requirements, pip_list_output, installed_packages,
                   additional_packages, reportVars, pinVars, cliVars, tomlVars>>

\* sync, lines 24-28, and remove_additional_packages: one uninstall for the
\* whole list, through run_pip with check_output=False
RemoveAdditionalPackages ==
    /\ pc = "remove_additional_packages"
    /\ \E outcome \in Outcomes :
          /\ calls' = Append(calls, Call(PipUninstallCommand, additional_packages,
                                         FALSE, outcome))
          /\ environment' =
                 After(outcome, environment,
                       PipUninstall(environment.value, additional_packages))
          /\ pc' = IF run_pip(FALSE, outcome) = "return"
                   THEN sync_next(pc, additional_packages)
                   ELSE "Traceback"
    /\ UNCHANGED <<requirements, pip_list_output, installed_packages,
                   additional_packages, reportVars, pinVars, cliVars, tomlVars>>

\* sync, lines 29-32, and install_pip_report_output: one install --upgrade of
\* format_package_list(requirements), through run_pip with check_output=False
InstallPipReportOutput ==
    /\ pc = "install_pip_report_output"
    /\ \E outcome \in Outcomes :
          /\ calls' = Append(calls, Call(PipInstallCommand,
                                         format_package_list(requirements),
                                         FALSE, outcome))
          /\ environment' =
                 After(outcome, environment,
                       PipInstallUpgrade(environment.value,
                                         format_package_list(requirements)))
          /\ pc' = IF run_pip(FALSE, outcome) = "return"
                   THEN sync_next(pc, additional_packages)
                   ELSE "Traceback"
    /\ UNCHANGED <<requirements, pip_list_output, installed_packages,
                   additional_packages, reportVars, pinVars, cliVars, tomlVars>>

NextSync ==
    \/ SyncSnapshot
    \/ RemoveAdditionalPackages
    \/ InstallPipReportOutput

SpecSync == InitSync /\ [][NextSync]_vars

-----------------------------------------------------------------------------
(* sync.py: sync called a second time with the same requirements, after a
   first call whose requests all succeeded *)

SyncAgain ==
    /\ pc = "done"
    /\ Len(SelectSeq(calls, LAMBDA c : c.command = PipListCommand)) = 1
    /\ \A i \in 1..Len(calls) : calls[i].outcome = "ok"
    /\ pc' = "sync"
    /\ pip_list_output' = <<>>
    /\ installed_packages' = <<>>
    /\ additional_packages' = <<>>
    /\ UNCHANGED <<requirements, calls, environment, reportVars, pinVars,
                   cliVars, tomlVars>>

NextSyncTwice ==
    \/ NextSync
    \/ SyncAgain

SpecSyncTwice == InitSync /\ [][NextSyncTwice]_vars

-----------------------------------------------------------------------------
(* get_requirements.py: read_pip_report *)

\* One element of the report's `install` collection
ReportEntry(name, version, requested, hash) ==
    [metadata |-> [name |-> name, version |-> version],
     requested |-> requested,
     download_info |-> [archive_info |-> [hash |-> hash]]]

url == <<"f", "i", "l", "e", ":", "/">>

\* Elements that lack one of the fields read_pip_report subscripts
MalformedEntries ==
    {[metadata |-> [version |-> v2_0_1],
      requested |-> TRUE,
      download_info |-> [archive_info |-> [hash |-> sha256eq1234]]],
     [metadata |-> [name |-> tomli],
      requested |-> TRUE,
      download_info |-> [archive_info |-> [hash |-> sha256eq1234]]],
     [metadata |-> [name |-> tomli, version |-> v2_0_1],
      download_info |-> [archive_info |-> [hash |-> sha256eq1234]]],
     [metadata |-> [name |-> tomli, version |-> v2_0_1],
      requested |-> TRUE,
      download_info |-> [url |-> url]]}

WellFormedEntries ==
    {ReportEntry(tomli, v2_0_1, TRUE, sha256eq1234),
     ReportEntry(pyjokes, v0_6_0, FALSE, md5eq5678),
     ReportEntry(cowsay, v5_0, TRUE, sha256eq1234)}

ReportEntries == WellFormedEntries \cup MalformedEntries

\* Reports: without an `install` key, or with a collection of entries
PipReports ==
    {NoReport} \cup
    {[version |-> "1", install |-> s] : s \in SeqsUpTo(ReportEntries, MaxInstall)}

\* The subscripts of lines 160-165 all succeed on this element
HasRequiredFields(package) ==
    /\ "metadata" \in DOMAIN package
    /\ "name" \in DOMAIN package.metadata
    /\ "version" \in DOMAIN package.metadata
    /\ "requested" \in DOMAIN package
    /\ "download_info" \in DOMAIN package
    /\ "archive_info" \in DOMAIN package.download_info
    /\ "hash" \in DOMAIN package.download_info.archive_info

\* dict.get("install") is truthy: the key is there and the list is not empty
GetInstall(report) ==
    IF "install" \in DOMAIN report THEN report.install ELSE <<>>

\* read_pip_report inserting each record at the front of the list
read_pip_report_prepend(report) ==
    LET install == GetInstall(report) IN
    IF install # <<>>
    THEN IF \A i \in 1..Len(install) : HasRequiredFields(install[i])
         THEN [kind |-> "return",
               value |-> Some([i \in 1..Len(install) |->
                   LET package == install[Len(install) + 1 - i] IN
                   PyPackage(package.metadata.name,
                             package.metadata.version,
                             package.requested,
                             Some(Replace(package.download_info.archive_info.hash,
                                          "=", ":")))])]
         ELSE [kind |-> "KeyError", value |-> None]
    ELSE [kind |-> "return", value |-> None]

\* read_pip_report testing `"install" in pip_report` instead of its truth
read_pip_report_key_test(report) ==
    IF "install" \in DOMAIN report
    THEN IF \A i \in 1..Len(report.install) : HasRequiredFields(report.install[i])
         THEN [kind |-> "return",
               value |-> Some([i \in 1..Len(report.install) |->
                   PyPackage(report.install[i].metadata.name,
                             report.install[i].metadata.version,
                             report.install[i].requested,
                             Some(Replace(report.install[i].download_info.archive_info.hash,
                                          "=", ":")))])]
         ELSE [kind |-> "KeyError", value |-> None]
    ELSE [kind |-> "return", value |-> None]

\* read_pip_report subscripting pip_report["install"] instead of .get
read_pip_report_subscript(report) ==
    IF "install" \notin DOMAIN report
    THEN [kind |-> "KeyError", value |-> None]
    ELSE IF report.install # <<>>
    THEN IF \A i \in 1..Len(report.install) : HasRequiredFields(report.install[i])
         THEN [kind |-> "return",
               value |-> Some([i \in 1..Len(report.install) |->
                   PyPackage(report.install[i].metadata.name,
                             report.install[i].metadata.version,
                             report.install[i].requested,
                             Some(Replace(report.install[i].download_info.archive_info.hash,
                                          "=", ":")))])]
         ELSE [kind |-> "KeyError", value |-> None]
    ELSE [kind |-> "return", value |-> None]

\* read_pip_report passing over the entries it cannot read
read_pip_report_skip_malformed(report) ==
    LET install == SelectSeq(GetInstall(report), HasRequiredFields) IN
    IF GetInstall(report) # <<>>
    THEN [kind |-> "return",
          value |-> Some([i \in 1..Len(install) |->
              PyPackage(install[i].metadata.name,
                        install[i].metadata.version,
                        install[i].requested,
                        Some(Replace(install[i].download_info.archive_info.hash,
                                     "=", ":")))])]
    ELSE [kind |-> "return", value |-> None]

\* read_pip_report: how the call ends and, when it returns, the value
read_pip_report(report) ==
    LET install == GetInstall(report) IN
    IF install # <<>>
    THEN IF \A i \in 1..Len(install) : HasRequiredFields(install[i])
         THEN [kind |-> "return",
               value |-> Some([i \in 1..Len(install) |->
                   PyPackage(install[i].metadata.name,
                             install[i].metadata.version,
                             install[i].requested,
                             Some(Replace(install[i].download_info.archive_info.hash,
                                          "=", ":")))])]
         ELSE [kind |-> "KeyError", value |-> None]
    ELSE [kind |-> "return", value |-> None]

InitReport ==
    /\ pc = "read_pip_report"
    /\ pip_report \in PipReports
    /\ dependencies = None
    /\ requirements = <<>>
    /\ pip_list_output = <<>>
    /\ installed_packages = <<>>
    /\ additional_packages = <<>>
    /\ calls = <<>>
    /\ arguments = [sync |-> FALSE, hashes |-> FALSE]
    /\ file_contents = <<>>
    /\ output_file = None
    /\ environment = None
    /\ argv = NoArgv
    /\ files = NoFiles
    /\ pip_version_output = None
    /\ toml_file = NoToml
    /\ toml_dict = NoToml
    /\ toml_calls = <<>>

ReadPipReport ==
    /\ pc = "read_pip_report"
    /\ LET result == read_pip_report(pip_report)
       IN /\ pc' = IF result.kind = "return" THEN "returned" ELSE "KeyError"
          /\ dependencies' = result.value
    /\ UNCHANGED <<pip_report, syncVars, pinVars, cliVars, tomlVars>>

NextReport == ReadPipReport

SpecReport == InitReport /\ [][NextReport]_vars

-----------------------------------------------------------------------------
(* get_requirements.py: read_toml *)

MaxReads == 2   \* read_toml calls on one dictionary

pytest == <<"p", "y", "t", "e", "s", "t">>
pytest_mock == <<"p", "y", "t", "e", "s", "t", "-", "m", "o", "c", "k">>
virtualenv == <<"v", "i", "r", "t", "u", "a", "l", "e", "n", "v">>
dev == <<"d", "e", "v">>
docs == <<"d", "o", "c", "s">>
something == <<"s", "o", "m", "e", "t", "h", "i", "n", "g">>

\* The dictionaries of the tests.  The keys of a table are strings; the names
\* of the optional dependencies, which read_toml looks up, are Python strings
TEST_TOML ==
    [project |->
        ("dependencies" :> <<tomli>>)
        @@ ("optional-dependencies" :>
                ((dev :> <<pytest, pytest_mock>>) @@ (virtualenv :> <<virtualenv>>)))]

TEST_EMPTY_TOML == [something |-> [no_project_section |-> <<"n">>]]

TEST_NO_OPS_TOML == [project |-> [dependencies |-> <<tomli>>]]

\* Other files tomllib can load: a project with optional dependencies only,
\* one with neither, an empty [project] table, an empty group
OnlyOptionalToml ==
    [project |->
        ("name" :> cowsay) @@ ("optional-dependencies" :> (dev :> <<pytest>>))]

OnlyNameToml == [project |-> [name |-> cowsay]]

EmptyProjectToml == [project |-> <<>>]

EmptyGroupToml ==
    [project |->
        ("dependencies" :> <<tomli>>) @@ ("optional-dependencies" :> (docs :> <<>>))]

TomlDicts ==
    {TEST_TOML, TEST_EMPTY_TOML, TEST_NO_OPS_TOML, OnlyOptionalToml,
     OnlyNameToml, EmptyProjectToml, EmptyGroupToml}

\* optional_dependency: None, the empty string or a name
OptionalDependencies ==
    {None, Some(<<>>), Some(dev), Some(virtualenv), Some(docs), Some(something)}

\* dict.get(key): the value, or None
Get(dict, key) == IF key \in DOMAIN dict THEN Some(dict[key]) ELSE None

\* The truth value of what dict.get returned, or of an Optional[str]: false
\* for None and for an empty table, list or string
Bool(optional) == ~optional.isNone /\ DOMAIN optional.value # {}

\* How a read_toml call ends, what it returns and the dictionary afterwards
TomlResult(kind, value, dict) == [kind |-> kind, value |-> value, toml_dict |-> dict]

\* read_toml putting the optional dependency's requirements first
read_toml_optional_first(dict, optional_dependency) ==
    IF ~Bool(Get(dict, "project"))
    THEN TomlResult("SystemExit", None, dict)
    ELSE LET base == Get(dict.project, "dependencies") IN
         IF ~Bool(optional_dependency)
         THEN TomlResult("return", base, dict)
         ELSE IF ~Bool(Get(dict.project, "optional-dependencies"))
         THEN TomlResult("SystemExit", None, dict)
         ELSE LET optional_dependency_reqs ==
                      Get(dict.project["optional-dependencies"],
                          optional_dependency.value)
              IN IF ~Bool(optional_dependency_reqs)
                 THEN TomlResult("SystemExit", None, dict)
                 ELSE IF base.isNone
                 THEN TomlResult("AttributeError", None, dict)
                 ELSE LET extended ==
                              optional_dependency_reqs.value \o base.value
                      IN TomlResult("return", Some(extended),
                                    [dict EXCEPT !.project.dependencies = extended])

\* read_toml.  `base` is its local `dependencies`: the list held by the
\* dictionary, not a copy, so dependencies.extend(...) changes
\* toml_dict["project"]["dependencies"]; on None it raises AttributeError
read_toml(dict, optional_dependency) ==
    IF ~Bool(Get(dict, "project"))
    THEN TomlResult("SystemExit", None, dict)
    ELSE LET base == Get(dict.project, "dependencies") IN
         IF ~Bool(optional_dependency)
         THEN TomlResult("return", base, dict)
         ELSE IF ~Bool(Get(dict.project, "optional-dependencies"))
         THEN TomlResult("SystemExit", None, dict)
         ELSE LET optional_dependency_reqs ==
                      Get(dict.project["optional-dependencies"],
                          optional_dependency.value)
              IN IF ~Bool(optional_dependency_reqs)
                 THEN TomlResult("SystemExit", None, dict)
                 ELSE IF base.isNone
                 THEN TomlResult("AttributeError", None, dict)
                 ELSE LET extended ==
                              base.value \o optional_dependency_reqs.value
                      IN TomlResult("return", Some(extended),
                                    [dict EXCEPT !.project.dependencies = extended])

\* One read_toml call, as its caller saw it
TomlCall(optional_dependency, result) ==
    [optional_dependency |-> optional_dependency,
     kind |-> result.kind,
     value |-> result.value]

InitToml ==
    /\ pc = "read_toml"
    /\ toml_file \in TomlDicts
    /\ toml_dict = toml_file
    /\ toml_calls = <<>>
    /\ requirements = <<>>
    /\ pip_list_output = <<>>
    /\ installed_packages = <<>>
    /\ additional_packages = <<>>
    /\ calls = <<>>
    /\ environment = None
    /\ pip_report = NoReport
    /\ dependencies = None
    /\ arguments = [sync |-> FALSE, hashes |-> FALSE]
    /\ file_contents = <<>>
    /\ output_file = None
    /\ argv = NoArgv
    /\ files = NoFiles
    /\ pip_version_output = None

\* A caller that catches SystemExit, as the tests do, calls read_toml on the
\* dictionary it holds
ReadToml ==
    /\ pc = "read_toml"
    /\ Len(toml_calls) < MaxReads
    /\ \E optional_dependency \in OptionalDependencies :
          LET result == read_toml(toml_dict, optional_dependency)
          IN /\ toml_dict' = result.toml_dict
             /\ toml_calls' = Append(toml_calls, TomlCall(optional_dependency, result))
    /\ UNCHANGED <<pc, toml_file, syncVars, reportVars, pinVars, cliVars>>

NextToml == ReadToml

SpecToml == InitToml /\ [][NextToml]_vars

-----------------------------------------------------------------------------
(* pin_requirements.py *)

\* The characters of the model's strings in code point order
CodePoints ==
    <<"\n", " ", "#", "-", ".", "0", "1", "2", "3", "4", "5", "6", "7",
      "8", "9", ":", "=", "A", "B", "C", "D", "E", "F", "G", "H", "I", "J",
      "K", "L", "M", "N", "O", "P", "Q", "R", "S", "T", "U", "V", "W", "X",
      "Y", "Z", "\\", "_", "a", "b", "c", "d", "e", "f", "g", "h", "i",
      "j", "k", "l", "m", "n", "o", "p", "q", "r", "s", "t", "u", "v", "w",
      "x", "y", "z">>

\* Rank of a character among CodePoints: str comparison goes by code point
Ord(c) == CHOOSE i \in 1..Len(CodePoints) : CodePoints[i] = c

\* a < b on str
RECURSIVE StrLess(_, _)
StrLess(a, b) ==
    IF b = <<>> THEN FALSE
    ELSE IF a = <<>> THEN TRUE
    ELSE IF Head(a) = Head(b) THEN StrLess(Tail(a), Tail(b))
    ELSE Ord(Head(a)) < Ord(Head(b))

\* Place x in a list sorted by str.lower, after the elements whose key is
\* not greater (list.sort is stable)
RECURSIVE InsertByLower(_, _)
InsertByLower(sorted, x) ==
    IF sorted = <<>> THEN <<x>>
    ELSE IF StrLess(Lower(x), Lower(Head(sorted))) THEN <<x>> \o sorted
    ELSE <<Head(sorted)>> \o InsertByLower(Tail(sorted), x)

\* list.sort(key=str.lower) that leaves the list as it is
SortByLower_unsorted(lines) == lines

\* list.sort(key=str.lower)
RECURSIVE SortByLower(_)
SortByLower(lines) ==
    IF lines = <<>> THEN <<>>
    ELSE InsertByLower(SortByLower(SubSeq(lines, 1, Len(lines) - 1)),
                       lines[Len(lines)])

TopHeader ==
    <<"#", " ", "T", "o", "p", " ", "l", "e", "v", "e", "l", " ", "r", "e",
      "q", "u", "i", "r", "e", "m", "e", "n", "t", "s">>
DepHeader ==
    <<"#", " ", "D", "e", "p", "e", "n", "d", "e", "n", "c", "i", "e", "s",
      " ", "o", "f", " ", "t", "o", "p", " ", "l", "e", "v", "e", "l", " ",
      "r", "e", "q", "u", "i", "r", "e", "m", "e", "n", "t", "s">>
HashContinuation ==
    <<" ", "\\", "\n", " ", " ", " ", " ", "-", "-", "h", "a", "s", "h",
      "=">>
NoneStr == <<"N", "o", "n", "e">>

\* f"{package.hash}": str() of an Optional[str]
FormatHash(hash) == IF hash.isNone THEN NoneStr ELSE hash.value

\* pinned_format without the line continuation before --hash
pinned_format_one_line(package, hashes) ==
    package.name \o <<"=", "=">> \o package.version
        \o (IF hashes
            THEN <<" ", "-", "-", "h", "a", "s", "h", "=">> \o FormatHash(package.hash)
            ELSE <<>>)

\* lines 44-46: pinned_format of one package
pinned_format(package, hashes) ==
    package.name \o <<"=", "=">> \o package.version
        \o (IF hashes THEN HashContinuation \o FormatHash(package.hash) ELSE <<>>)

\* build_reqirements_file_contents putting requested packages second
build_reqirements_file_contents_swapped(reqs, hashes) ==
    LET lines == [i \in 1..Len(reqs) |-> pinned_format(reqs[i], hashes)]
        indices(requested) ==
            SelectSeq([i \in 1..Len(reqs) |-> i],
                      LAMBDA i : reqs[i].requested = requested)
        top_level_requirements ==
            [k \in 1..Len(indices(FALSE)) |-> lines[indices(FALSE)[k]]]
        dependency_requirements ==
            [k \in 1..Len(indices(TRUE)) |-> lines[indices(TRUE)[k]]]
    IN <<TopHeader>> \o SortByLower(top_level_requirements)
         \o (IF dependency_requirements # <<>>
             THEN <<DepHeader>> \o SortByLower(dependency_requirements)
             ELSE <<>>)

\* build_reqirements_file_contents extending the list unconditionally
build_reqirements_file_contents_always_header(reqs, hashes) ==
    LET lines == [i \in 1..Len(reqs) |-> pinned_format(reqs[i], hashes)]
        indices(requested) ==
            SelectSeq([i \in 1..Len(reqs) |-> i],
                      LAMBDA i : reqs[i].requested = requested)
        top_level_requirements ==
            [k \in 1..Len(indices(TRUE)) |-> lines[indices(TRUE)[k]]]
        dependency_requirements ==
            [k \in 1..Len(indices(FALSE)) |-> lines[indices(FALSE)[k]]]
    IN <<TopHeader>> \o SortByLower(top_level_requirements)
         \o <<DepHeader>> \o SortByLower(dependency_requirements)

\* build_reqirements_file_contents: the pinned lines of the requested
\* packages and of the others, each list sorted by str.lower of the line,
\* under their comments; the second comment only when its list is not empty
build_reqirements_file_contents(reqs, hashes) ==
    LET lines == [i \in 1..Len(reqs) |-> pinned_format(reqs[i], hashes)]
        indices(requested) ==
            SelectSeq([i \in 1..Len(reqs) |-> i],
                      LAMBDA i : reqs[i].requested = requested)
        top_level_requirements ==
            [k \in 1..Len(indices(TRUE)) |-> lines[indices(TRUE)[k]]]
        dependency_requirements ==
            [k \in 1..Len(indices(FALSE)) |-> lines[indices(FALSE)[k]]]
    IN <<TopHeader>> \o SortByLower(top_level_requirements)
         \o (IF dependency_requirements # <<>>
             THEN <<DepHeader>> \o SortByLower(dependency_requirements)
             ELSE <<>>)

\* write_requirements_file, without the newline after each element
RECURSIVE write_requirements_file_no_newline(_)
write_requirements_file_no_newline(contents) ==
    IF contents = <<>> THEN <<>>
    ELSE Head(contents) \o write_requirements_file_no_newline(Tail(contents))

\* write_requirements_file: f.writelines(f"{package}\n" ...), the text written
RECURSIVE write_requirements_file(_)
write_requirements_file(contents) ==
    IF contents = <<>> THEN <<>>
    ELSE Head(contents) \o <<"\n">> \o write_requirements_file(Tail(contents))


-----------------------------------------------------------------------------
(* pin_requirements.py: pin_requirements *)

MaxRecords == 3   \* records in the list passed to pin_requirements

Zeta == <<"Z", "e", "t", "a">>
alpha == <<"a", "l", "p", "h", "a">>
Beta == <<"B", "e", "t", "a">>
nose == <<"n", "o", "s", "e">>
nose2 == <<"n", "o", "s", "e", "2">>

\* Records to render: every name as a requested and as a transitive package
PinPackages ==
    {PyPackage(n, IF n \in {alpha, nose} THEN v2_0_1 ELSE v5_0, requested,
               Some(IF n \in {Zeta, nose2} THEN sha256_1234 ELSE sha256_5678)) :
        n \in {Zeta, alpha, Beta, nose, nose2}, requested \in BOOLEAN}

\* main calls pin_requirements only with a non-empty list
PinLists ==
    {s \in SeqsUpTo(PinPackages, MaxRecords) : s # <<>> /\ DistinctNames(s)}

InitPin ==
    /\ pc = "pin_requirements"
    /\ requirements \in PinLists
    /\ arguments \in {[sync |-> FALSE, hashes |-> h] : h \in BOOLEAN}
    /\ file_contents = <<>>
    /\ output_file = None
    /\ pip_list_output = <<>>
    /\ installed_packages = <<>>
    /\ additional_packages = <<>>
    /\ calls = <<>>
    /\ pip_report = NoReport
    /\ dependencies = None
    /\ environment = None
    /\ argv = NoArgv
    /\ files = NoFiles
    /\ pip_version_output = None
    /\ toml_file = NoToml
    /\ toml_dict = NoToml
    /\ toml_calls = <<>>

\* pin_requirements sorting the list it is given, by lower-cased name
PinRequirements_sorts_requirements ==
    /\ pc = "pin_requirements"
    /\ LET output_file_contents ==
               build_reqirements_file_contents(requirements, arguments.hashes)
           names == SortByLower([i \in 1..Len(requirements) |-> requirements[i].name])
       IN /\ file_contents' = output_file_contents
          /\ output_file' = Some(write_requirements_file(output_file_contents))
          /\ requirements' =
                 [i \in 1..Len(requirements) |->
                     CHOOSE r \in Range(requirements) : r.name = names[i]]
    /\ pc' = "done"
    /\ UNCHANGED <<arguments, pip_list_output, installed_packages,
                   additional_packages, calls, environment, reportVars,
                   cliVars, tomlVars>>

\* pin_requirements: build the contents, then write them to the output file
PinRequirements ==
    /\ pc = "pin_requirements"
    /\ LET output_file_contents ==
               build_reqirements_file_contents(requirements, arguments.hashes)
       IN /\ file_contents' = output_file_contents
          /\ output_file' = Some(write_requirements_file(output_file_contents))
    /\ pc' = "done"
    /\ UNCHANGED <<arguments, syncVars, reportVars, cliVars, tomlVars>>

NextPin == PinRequirements

SpecPin == InitPin /\ [][NextPin]_vars

-----------------------------------------------------------------------------
(* cli.py: parse_args *)

requirements_in ==
    <<"r", "e", "q", "u", "i", "r", "e", "m", "e", "n", "t", "s", ".", "i", "n">>
pyproject_toml ==
    <<"p", "y", "p", "r", "o", "j", "e", "c", "t", ".", "t", "o", "m", "l">>
tests_directory == <<"t", "e", "s", "t", "s">>
missing_toml == <<"m", "i", "s", "s", "i", "n", "g", ".", "t", "o", "m", "l">>
dot_toml == <<".", "t", "o", "m", "l">>

Paths == {requirements_in, pyproject_toml, tests_directory, missing_toml}

\* Working directories: each of the two default files can be there or not,
\* requirements.in can also be a directory
FileSystems ==
    {(requirements_in :> r) @@ (pyproject_toml :> t)
        @@ (tests_directory :> "directory") @@ (missing_toml :> "absent") :
        r \in {"absent", "file", "directory"}, t \in {"absent", "file"}}

\* Path.exists and Path.is_file
Exists(fs, path) == fs[path] # "absent"
IsFile(fs, path) == fs[path] = "file"

\* The positions of a character in a string
IndicesOf(string, char) == {i \in 1..Len(string) : string[i] = char}

\* Path.suffix for a path of one component: from the last dot on, unless
\* the dot is first or last
Suffix(path) ==
    LET dots == IndicesOf(path, ".") IN
    IF dots = {} THEN <<>>
    ELSE LET last == CHOOSE i \in dots : \A j \in dots : j <= i
         IN IF last = 1 \/ last = Len(path) THEN <<>>
            ELSE SubSeq(path, last, Len(path))

\* determine_default_file
determine_default_file(fs) ==
    IF Exists(fs, requirements_in) THEN Some(requirements_in)
    ELSE IF Exists(fs, pyproject_toml) THEN Some(pyproject_toml)
    ELSE None

\* Command lines: the file, -d, --sync and --hashes
Argvs ==
    [file : {None} \cup {Some(path) : path \in Paths},
     dependency : {None, Some(<<>>), Some(dev)},
     sync : BOOLEAN,
     hashes : BOOLEAN]

\* parse_args without the is_file test
parse_args_no_is_file(command_line, fs) ==
    LET file == IF command_line.file.isNone
                THEN determine_default_file(fs)
                ELSE command_line.file
    IN IF file.isNone
       THEN [kind |-> "SystemExit", value |-> <<>>]
       ELSE IF Suffix(file.value) # dot_toml /\ Bool(command_line.dependency)
       THEN [kind |-> "SystemExit", value |-> <<>>]
       ELSE [kind |-> "return",
             value |-> [file |-> file.value,
                        dependency |-> command_line.dependency,
                        sync |-> command_line.sync,
                        hashes |-> command_line.hashes]]

\* parse_args: the namespace, with the default file where none is given, or
\* sys.exit; a Path is always true, so `not args.file` tests for None
parse_args(command_line, fs) ==
    LET file == IF command_line.file.isNone
                THEN determine_default_file(fs)
                ELSE command_line.file
    IN IF file.isNone
       THEN [kind |-> "SystemExit", value |-> <<>>]
       ELSE IF Suffix(file.value) # dot_toml /\ Bool(command_line.dependency)
       THEN [kind |-> "SystemExit", value |-> <<>>]
       ELSE IF ~IsFile(fs, file.value)
       THEN [kind |-> "SystemExit", value |-> <<>>]
       ELSE [kind |-> "return",
             value |-> [file |-> file.value,
                        dependency |-> command_line.dependency,
                        sync |-> command_line.sync,
                        hashes |-> command_line.hashes]]

-----------------------------------------------------------------------------
(* cli.py: validate_pip_version *)

v22_1 == <<"2", "2", ".", "1">>
v23_1 == <<"2", "3", ".", "1">>
v20_1_3 == <<"2", "0", ".", "1", ".", "3">>
v34_2_9 == <<"3", "4", ".", "2", ".", "9">>
v22 == <<"2", "2">>
v22_10 == <<"2", "2", ".", "1", "0">>
v9_0_1 == <<"9", ".", "0", ".", "1">>
v24_1b1 == <<"2", "4", ".", "1", "b", "1">>

PipVersions ==
    {v22_2, v22_1, v23_1, v20_1_3, v34_2_9, v22, v22_10, v9_0_1, v24_1b1}

\* "pip <version> from /pip (python 3.9)" and the newline pip prints
PipVersionOutput(version) ==
    pip \o <<" ">> \o version
        \o <<" ", "f", "r", "o", "m", " ", "/", "p", "i", "p", " ", "(", "p",
             "y", "t", "h", "o", "n", " ", "3", ".", "9", ")", "\n">>

PipVersionOutputs == {PipVersionOutput(version) : version \in PipVersions}

PipVersionCommand == <<"python3", "-m", "pip", "--version">>

\* str.split(sep): the pieces between the separators, empty ones included
RECURSIVE SplitOn(_, _)
SplitOn(string, separators) ==
    LET at == {i \in 1..Len(string) : string[i] \in separators} IN
    IF at = {} THEN <<string>>
    ELSE LET first == CHOOSE i \in at : \A j \in at : i <= j
         IN <<SubSeq(string, 1, first - 1)>>
                \o SplitOn(SubSeq(string, first + 1, Len(string)), separators)

\* str.split(): split on whitespace, without empty pieces
Split(string) == SelectSeq(SplitOn(string, {" ", "\n"}), LAMBDA piece : piece # <<>>)

Digits == <<"0", "1", "2", "3", "4", "5", "6", "7", "8", "9">>

\* int(str) accepts the string
IsInt(string) == string # <<>> /\ \A i \in 1..Len(string) : string[i] \in Range(Digits)

\* int(str)
RECURSIVE ToInt(_)
ToInt(string) ==
    IF string = <<>> THEN 0
    ELSE 10 * ToInt(SubSeq(string, 1, Len(string) - 1))
            + (CHOOSE d \in 1..Len(Digits) : Digits[d] = string[Len(string)]) - 1

\* a >= b on list[int]: the first place where they differ decides, and
\* without one the longer list is the greater
ListGreaterOrEqual(a, b) ==
    LET differ == {i \in 1..Len(a) : i <= Len(b) /\ a[i] # b[i]} IN
    IF differ = {} THEN Len(a) >= Len(b)
    ELSE LET first == CHOOSE i \in differ : \A j \in differ : i <= j
         IN a[first] > b[first]

\* validate_pip_version with > where the code has >=
validate_pip_version_strict(output) ==
    LET words == Split(output) IN
    IF Len(words) < 2
    THEN [kind |-> "IndexError", value |-> FALSE]
    ELSE LET numbers == SplitOn(words[2], {"."}) IN
         IF \E i \in 1..Len(numbers) : ~IsInt(numbers[i])
         THEN [kind |-> "ValueError", value |-> FALSE]
         ELSE [kind |-> "return",
               value |-> LET pip_version == [i \in 1..Len(numbers) |->
                                                ToInt(numbers[i])]
                         IN ListGreaterOrEqual(pip_version, <<22, 2>>)
                               /\ pip_version # <<22, 2>>]

\* validate_pip_version: the second word of the output, split on the dots,
\* each piece through int(), compared as a list with [22, 2]
validate_pip_version(output) ==
    LET words == Split(output) IN
    IF Len(words) < 2
    THEN [kind |-> "IndexError", value |-> FALSE]
    ELSE LET numbers == SplitOn(words[2], {"."}) IN
         IF \E i \in 1..Len(numbers) : ~IsInt(numbers[i])
         THEN [kind |-> "ValueError", value |-> FALSE]
         ELSE [kind |-> "return",
               value |-> ListGreaterOrEqual(
                             [i \in 1..Len(numbers) |-> ToInt(numbers[i])],
                             <<22, 2>>)]

-----------------------------------------------------------------------------
(* cli.py: main, from the call of get_pip_report_requirements on, for a
   requirements file as input (SpecMain), and up to the capture of the
   report, for every command line (SpecCli) *)

cool_package ==
    <<"c", "o", "o", "l", "_", "p", "a", "c", "k", "a", "g", "e">>
sha256eqabc123 ==
    <<"s", "h", "a", "2", "5", "6", "=", "a", "b", "c", "1", "2", "3">>

\* The report of the resolution of one requested package
CoolReport ==
    [version |-> "1",
     install |-> <<ReportEntry(cool_package, v2_0_1, TRUE, sha256eqabc123)>>]

MainReports == PipReports \cup {CoolReport}

\* build_pip_report_command, without pip_args
PipReportCommand ==
    <<"env", "PIP_REQUIRE_VIRTUALENV=false", "python3", "-m", "pip", "install",
      "-q", "--dry-run", "--ignore-installed", "--report", "-">>

\* get_pip_report_requirements, line 39: pip_report_input for a requirements file
RequirementsFileInput(file) == <<"-r", file>>

\* get_pip_report_requirements, lines 34-39: pip_report_input, or how the
\* call of read_toml ended; toml is what load_toml_file returned
get_pip_report_input(file, optional_dependency, toml) ==
    IF Suffix(file) = dot_toml
    THEN LET result == read_toml(toml, optional_dependency)
         IN [kind |-> result.kind, value |-> result.value]
    ELSE [kind |-> "return", value |-> Some(RequirementsFileInput(file))]

\* What load_toml_file can return for the file: a requirements file is not loaded
TomlFiles(file) == IF Suffix(file) = dot_toml THEN TomlDicts ELSE {NoToml}

\* main without its `if pip_report_requirements:`
Truthy_unchecked(optional) == TRUE

\* `if pip_report_requirements:` is false for None and for an empty list
Truthy(optional) == ~optional.isNone /\ optional.value # <<>>

InitMain ==
    /\ pc = "get_pip_report_requirements"
    /\ arguments \in [file : {requirements_in}, dependency : {None},
                       sync : BOOLEAN, hashes : BOOLEAN]
    /\ requirements = <<>>
    /\ pip_list_output = <<>>
    /\ installed_packages = <<>>
    /\ additional_packages = <<>>
    /\ calls = <<>>
    /\ pip_report = NoReport
    /\ dependencies = None
    /\ file_contents = <<>>
    /\ output_file = None
    /\ environment = None
    /\ argv = NoArgv
    /\ files = NoFiles
    /\ pip_version_output = None
    /\ toml_file = NoToml
    /\ toml_dict = NoToml
    /\ toml_calls = <<>>

\* get_pip_report_requirements, lines 34-45: read_toml for a TOML file, then
\* the resolution report through run_pip with check_output=True.  A result
\* of read_toml that is None makes build_pip_report_command raise TypeError
\* on `*pip_report_input`
GetPipReport ==
    /\ pc = "get_pip_report_requirements"
    /\ \E outcome \in Outcomes, report \in MainReports,
          toml \in TomlFiles(arguments.file) :
          LET input == get_pip_report_input(arguments.file, arguments.dependency,
                                            toml)
              result == run_pip(TRUE, outcome)
          IN IF input.kind = "return" /\ ~input.value.isNone
             THEN /\ calls' = Append(calls, Call(PipReportCommand, input.value.value,
                                                 TRUE, outcome))
                  /\ IF result = "return"
                     THEN pip_report' = report /\ pc' = "read_pip_report"
                     ELSE /\ pc' = IF result = "SystemExit"
                                   THEN "SystemExit"
                                   ELSE "Traceback"
                          /\ UNCHANGED pip_report
             ELSE /\ pc' = IF input.kind = "SystemExit"
                           THEN "SystemExit"
                           ELSE "Traceback"
                  /\ UNCHANGED <<calls, pip_report>>
    /\ UNCHANGED <<requirements, pip_list_output, installed_packages,
                   additional_packages, dependencies, pinVars, environment,
                   cliVars, tomlVars>>

\* main, lines 138-148: sync or pin what read_pip_report returned, or exit
\* when there is nothing to pin
MainDispatch ==
    /\ pc = "returned"
    /\ IF Truthy(dependencies)
       THEN /\ requirements' = dependencies.value
            /\ pc' = IF arguments.sync THEN "sync" ELSE "pin_requirements"
       ELSE /\ pc' = "SystemExit"
            /\ UNCHANGED requirements
    /\ UNCHANGED <<pip_list_output, installed_packages, additional_packages,
                   calls, environment, reportVars, pinVars, cliVars, tomlVars>>

NextMain ==
    \/ GetPipReport
    \/ ReadPipReport
    \/ MainDispatch
    \/ SyncSnapshot
    \/ RemoveAdditionalPackages
    \/ InstallPipReportOutput
    \/ PinRequirements

SpecMain == InitMain /\ [][NextMain]_vars

-----------------------------------------------------------------------------
(* cli.py: main, lines 129-137 *)

NoArguments == <<>>

InitCli ==
    /\ pc = "parse_args"
    /\ argv \in Argvs
    /\ files \in FileSystems
    /\ arguments = NoArguments
    /\ pip_version_output = None
    /\ requirements = <<>>
    /\ pip_list_output = <<>>
    /\ installed_packages = <<>>
    /\ additional_packages = <<>>
    /\ calls = <<>>
    /\ environment = None
    /\ pip_report = NoReport
    /\ dependencies = None
    /\ file_contents = <<>>
    /\ output_file = None
    /\ toml_file = NoToml
    /\ toml_dict = NoToml
    /\ toml_calls = <<>>

\* main, line 129
ParseArgs ==
    /\ pc = "parse_args"
    /\ LET result == parse_args(argv, files)
       IN IF result.kind = "return"
          THEN arguments' = result.value /\ pc' = "get_pip_version"
          ELSE pc' = "SystemExit" /\ UNCHANGED arguments
    /\ UNCHANGED <<file_contents, output_file, syncVars, reportVars, cliVars,
                   tomlVars>>

\* main, lines 130-131: get_pip_version through run_pip with
\* check_output=True, validate_pip_version, and sys.exit when it is False
GetPipVersion ==
    /\ pc = "get_pip_version"
    /\ \E outcome \in Outcomes, output \in PipVersionOutputs :
          LET result == run_pip(TRUE, outcome)
              valid == validate_pip_version(output)
          IN /\ calls' = Append(calls, Call(PipVersionCommand, <<>>, TRUE, outcome))
             /\ IF result = "return"
                THEN /\ pip_version_output' = Some(output)
                     /\ pc' = IF valid.kind # "return" THEN "Traceback"
                              ELSE IF valid.value THEN "get_pip_report_requirements"
                              ELSE "SystemExit"
                ELSE /\ pc' = IF result = "SystemExit" THEN "SystemExit" ELSE "Traceback"
                     /\ UNCHANGED pip_version_output
    /\ UNCHANGED <<requirements, pip_list_output, installed_packages,
                   additional_packages, environment, reportVars, pinVars,
                   argv, files, tomlVars>>

NextCli ==
    \/ ParseArgs
    \/ GetPipVersion
    \/ GetPipReport

SpecCli == InitCli /\ [][NextCli]_vars

-----------------------------------------------------------------------------
(* Properties of sync *)

IsSnapshot(c) == c.command[4] = "list"
IsRemoval(c) == c.command[4] = "uninstall"
IsInstallation(c) == c.command[4] = "install"

Issued(kind(_)) == {i \in 1..Len(calls) : kind(calls[i])}

Names(packages) == [i \in 1..Len(packages) |-> packages[i].name]

\* The snapshot succeeded, so the removal list has been computed
Computed == Len(calls) >= 1 /\ calls[1].outcome = "ok"

\* C1: a removal request, when there is one to issue, is issued (and, the
\* call being blocking, completed) before the installation request, and no
\* removal request comes after an installation request.
C1_RemovalPrecedesInstallation ==
    /\ \A i \in Issued(IsInstallation), j \in Issued(IsRemoval) : j < i
    /\ \A i \in Issued(IsInstallation) :
          additional_packages # <<>> => \E j \in Issued(IsRemoval) : j < i

C1_Witness ==
    /\ Issued(IsRemoval) # {}
    /\ Issued(IsInstallation) # {}
    /\ pc = "done"

\* C2: an external invocation that fails is the last one issued, and the
\* process is then terminated (sys.exit or an uncaught exception): sync
\* neither goes on to a later step nor returns normally.
C2_FailureIsFatal ==
    \A i \in 1..Len(calls) :
        calls[i].outcome # "ok" =>
            /\ i = Len(calls)
            /\ pc \in {"SystemExit", "Traceback"}

\* C3: the removal list is exactly the installed names that match no desired
\* name when names are compared case-insensitively and that are not protected.
C3_CaseInsensitiveDifference ==
    Computed =>
        LET unmatched(n) ==
                /\ \A k \in 1..Len(requirements) :
                      Lower(requirements[k].name) # Lower(n)
                /\ n \notin {pip, setuptools}
        IN additional_packages = SelectSeq(Names(installed_packages), unmatched)

\* C4: the managed project's own package, installed and not desired, is not
\* in the removal list; installed [tomli, pip, cowsay, iso-freeze] with
\* desired [tomli, pyjokes] gives exactly [cowsay].
C4_OwnProjectNotRemoved ==
    Computed =>
        /\ iso_freeze \notin Range(additional_packages)
        /\ (/\ Names(installed_packages) = <<tomli, pip, cowsay, iso_freeze>>
            /\ Names(requirements) = <<tomli, pyjokes>>)
              => additional_packages = <<cowsay>>

\* C5: pip and setuptools are never in the removal list, whatever the desired
\* list, and no removal request names them.
C5_ProtectedNeverRemoved ==
    /\ pip \notin Range(additional_packages)
    /\ setuptools \notin Range(additional_packages)
    /\ \A i \in Issued(IsRemoval) :
          pip \notin Range(calls[i].args) /\ setuptools \notin Range(calls[i].args)

C5_Witness ==
    /\ Issued(IsRemoval) # {}
    /\ pip \in Range(Names(installed_packages))
    /\ setuptools \in Range(Names(installed_packages))
    /\ pip \notin Range(Names(requirements))
    /\ setuptools \notin Range(Names(requirements))

\* s is t with some elements left out, the others in t's order
RECURSIVE IsSubsequence(_, _)
IsSubsequence(s, t) ==
    IF s = <<>> THEN TRUE
    ELSE IF t = <<>> THEN FALSE
    ELSE IF Head(s) = Head(t) THEN IsSubsequence(Tail(s), Tail(t))
    ELSE IsSubsequence(s, Tail(t))

\* C6: the removal list is a subsequence of the installed names in installed
\* order, and is empty when nothing is installed.
C6_InstalledOrderKept ==
    Computed =>
        /\ IsSubsequence(additional_packages, Names(installed_packages))
        /\ installed_packages = <<>> => additional_packages = <<>>

C6_Witness ==
    /\ Computed
    /\ Len(additional_packages) >= 2
    /\ Len(additional_packages) < Len(installed_packages)
    /\ additional_packages[1] # Names(installed_packages)[1]

\* C7: one snapshot, at most one removal request, which carries the whole
\* non-empty removal list, and one installation request: a sync that returns
\* has issued exactly the snapshot, the removal if and only if the list is
\* non-empty, and the installation, and no run issues any of them twice.
C7_OneRequestEach ==
    /\ Cardinality(Issued(IsSnapshot)) <= 1
    /\ Cardinality(Issued(IsRemoval)) <= 1
    /\ Cardinality(Issued(IsInstallation)) <= 1
    /\ \A i \in Issued(IsRemoval) :
          calls[i].args = additional_packages /\ additional_packages # <<>>
    /\ pc = "done" =>
          /\ Cardinality(Issued(IsSnapshot)) = 1
          /\ Cardinality(Issued(IsInstallation)) = 1
          /\ Cardinality(Issued(IsRemoval)) = IF additional_packages # <<>> THEN 1 ELSE 0
          /\ Len(calls) = Cardinality(Issued(IsSnapshot)) + Cardinality(Issued(IsRemoval))
                          + Cardinality(Issued(IsInstallation))

C7_Witness ==
    /\ pc = "done"
    /\ Len(additional_packages) >= 2
    /\ Len(calls) = 3

\* C8: the installation request is `pip install --upgrade` followed by one
\* name==version string per desired record, in the desired order, whether or
\* not the package is already installed.
C8_InstallationRequest ==
    \A i \in Issued(IsInstallation) :
        /\ calls[i].command = <<"python3", "-m", "pip", "install", "--upgrade">>
        /\ Len(calls[i].args) = Len(requirements)
        /\ \A k \in 1..Len(requirements) :
              calls[i].args[k] =
                  requirements[k].name \o <<"=", "=">> \o requirements[k].version

C8_Witness ==
    /\ Issued(IsInstallation) # {}
    /\ Len(requirements) = 2
    /\ \E k \in 1..Len(requirements), j \in 1..Len(installed_packages) :
          /\ requirements[k].name = installed_packages[j].name
          /\ requirements[k].version = installed_packages[j].version

\* C25: get_installed_packages gives one record per entry of the snapshot,
\* in the snapshot's order, with the entry's name and version, requested
\* false and no hash, and nothing else of the entry.
C25_InstalledRecords ==
    Computed =>
        /\ Len(installed_packages) = Len(pip_list_output)
        /\ \A i \in 1..Len(pip_list_output) :
              installed_packages[i] =
                  [name |-> pip_list_output[i].name,
                   version |-> pip_list_output[i].version,
                   requested |-> FALSE,
                   hash |-> None]

C25_Witness ==
    /\ Computed
    /\ Len(pip_list_output) >= 3
    /\ "editable_project_location" \in DOMAIN pip_list_output[2]
    /\ installed_packages[2].name = iso_freeze

AllSucceeded == \A i \in 1..Len(calls) : calls[i].outcome = "ok"

Pinned(package) == [name |-> package.name, version |-> package.version]

SecondSync == Cardinality(Issued(IsSnapshot)) = 2

\* C28: a second sync with the same desired list, right after a sync whose
\* requests all succeeded, computes an empty removal list, issues no removal
\* request and leaves the environment as it was.
C28_SecondSyncChangesNothing ==
    [][SecondSync' =>
          /\ environment' = environment
          /\ additional_packages' = <<>>
          /\ Issued(IsRemoval)' = Issued(IsRemoval)]_vars

C28_Witness ==
    /\ SecondSync
    /\ pc = "done"
    /\ AllSucceeded
    /\ Len(calls) = 5
    /\ calls[2].args # <<>>
    /\ \E j \in 1..Len(calls[2].args) : calls[2].args[j] = cowsay

-----------------------------------------------------------------------------
(* Properties of read_pip_report *)

Returned == pc = "returned"

\* C9: for a report with a non-empty install collection of well-formed
\* entries, read_pip_report returns one record per entry, the i-th with the
\* name, version and requested flag of the i-th entry.
C9_CountAndOrderKept ==
    (/\ pc # "read_pip_report"
     /\ GetInstall(pip_report) # <<>>
     /\ \A i \in 1..Len(GetInstall(pip_report)) :
           GetInstall(pip_report)[i] \in WellFormedEntries)
    => /\ Returned
       /\ ~dependencies.isNone
       /\ Len(dependencies.value) = Len(pip_report.install)
       /\ \A i \in 1..Len(pip_report.install) :
             /\ dependencies.value[i].name = pip_report.install[i].metadata.name
             /\ dependencies.value[i].version = pip_report.install[i].metadata.version
             /\ dependencies.value[i].requested = pip_report.install[i].requested

\* Two well-formed entries that are not in name order
C9_Witness ==
    /\ Returned
    /\ ~dependencies.isNone
    /\ Len(dependencies.value) = 2
    /\ dependencies.value[1].name = tomli
    /\ dependencies.value[2].name = cowsay

\* C10: an empty install list gives None, and read_pip_report never returns
\* an empty list.
C10_EmptyGivesNone ==
    Returned =>
        /\ ("install" \in DOMAIN pip_report /\ pip_report.install = <<>>)
              => dependencies = None
        /\ ~dependencies.isNone => dependencies.value # <<>>

C10_Witness ==
    /\ Returned
    /\ "install" \in DOMAIN pip_report
    /\ pip_report.install = <<>>
    /\ dependencies = None

\* C11: a report without an `install` section is read like one whose list is
\* empty: read_pip_report returns None and raises nothing.
C11_AbsentInstallGivesNone ==
    (pc # "read_pip_report" /\ "install" \notin DOMAIN pip_report)
    => (Returned /\ dependencies = None)

C11_Witness ==
    /\ Returned
    /\ "install" \notin DOMAIN pip_report
    /\ dependencies = None

\* Position of the first `=` of a hash descriptor
FirstEquals(h) == CHOOSE k \in 1..Len(h) : h[k] = "=" /\ \A j \in 1..(k - 1) : h[j] # "="

\* C12: the hash of the i-th record is the descriptor of the i-th entry with
\* the `=` between algorithm and digest replaced by `:` and nothing else
\* changed, whatever the algorithm.
C12_HashSeparatorRewritten ==
    (Returned /\ ~dependencies.isNone) =>
        \A i \in 1..Len(pip_report.install) :
            LET h == pip_report.install[i].download_info.archive_info.hash
                k == FirstEquals(h)
            IN dependencies.value[i].hash =
                   Some(SubSeq(h, 1, k - 1) \o <<":">> \o SubSeq(h, k + 1, Len(h)))

C12_Witness ==
    /\ Returned
    /\ ~dependencies.isNone
    /\ Len(dependencies.value) = 2
    /\ dependencies.value[1].hash = Some(sha256_1234)
    /\ dependencies.value[2].hash = Some(<<"m", "d", "5", ":", "5", "6", "7", "8">>)

-----------------------------------------------------------------------------
(* Properties of read_toml *)

\* The call names an optional dependency
Named(call) ==
    ~call.optional_dependency.isNone /\ call.optional_dependency.value # <<>>

HasDependencies(dict) ==
    "project" \in DOMAIN dict /\ "dependencies" \in DOMAIN dict.project

HasGroups(dict) ==
    "project" \in DOMAIN dict /\ "optional-dependencies" \in DOMAIN dict.project

\* C24: on the dictionary a call is given, read_toml returns the project's
\* dependencies alone when no optional dependency is named, and followed by
\* the named group's requirements in their order when one is named; it exits
\* when there is no project section, when a group is named and the project
\* has no optional dependencies, and when the named group is not there.
C24_ReadToml ==
    [][toml_calls' # toml_calls =>
        LET call == toml_calls'[Len(toml_calls')]
            name == call.optional_dependency.value
        IN /\ "project" \notin DOMAIN toml_dict => call.kind = "SystemExit"
           /\ (HasDependencies(toml_dict) /\ ~Named(call)) =>
                 /\ call.kind = "return"
                 /\ call.value = Some(toml_dict.project.dependencies)
           /\ (/\ HasDependencies(toml_dict)
               /\ Named(call)
               /\ HasGroups(toml_dict)
               /\ name \in DOMAIN toml_dict.project["optional-dependencies"]
               /\ toml_dict.project["optional-dependencies"][name] # <<>>) =>
                 /\ call.kind = "return"
                 /\ call.value =
                        Some(toml_dict.project.dependencies
                                \o toml_dict.project["optional-dependencies"][name])
           /\ ("project" \in DOMAIN toml_dict /\ Named(call) /\ ~HasGroups(toml_dict)) =>
                 call.kind = "SystemExit"
           /\ (/\ Named(call)
               /\ HasGroups(toml_dict)
               /\ name \notin DOMAIN toml_dict.project["optional-dependencies"]) =>
                 call.kind = "SystemExit"]_vars

C24_Witness ==
    /\ toml_file = TEST_TOML
    /\ Len(toml_calls) = 1
    /\ toml_calls[1].optional_dependency = Some(dev)
    /\ toml_calls[1].kind = "return"
    /\ toml_calls[1].value = Some(<<tomli, pytest, pytest_mock>>)

\* C29: read_toml leaves the dictionary as it was loaded, so every call of a
\* sequence returns what it returns on a fresh copy.
C29_DictionaryNotModified ==
    /\ toml_dict = toml_file
    /\ \A i \in 1..Len(toml_calls) :
          LET fresh == read_toml(toml_file, toml_calls[i].optional_dependency)
          IN toml_calls[i].kind = fresh.kind /\ toml_calls[i].value = fresh.value

\* C30: for a dictionary with a non-empty project section, what read_toml
\* returns is a list, also without a `dependencies` key.
C30_ResultIsAList ==
    \A i \in 1..Len(toml_calls) :
        (/\ "project" \in DOMAIN toml_file
         /\ DOMAIN toml_file.project # {}
         /\ toml_calls[i].kind = "return")
        => ~toml_calls[i].value.isNone

-----------------------------------------------------------------------------
(* Properties of pin_requirements *)

Rendered == pc = "done" /\ ~arguments.sync

\* The line of a record: name==version, and with hashes a space, a
\* backslash, a newline, four spaces and --hash=<hash>
LineOf(package) ==
    package.name \o <<"=", "=">> \o package.version
        \o (IF arguments.hashes
            THEN <<" ", "\\", "\n", " ", " ", " ", " ", "-", "-", "h", "a", "s", "h", "=">>
                     \o package.hash.value
            ELSE <<>>)

IsHeader(line) == line = TopHeader \/ line = DepHeader

Positions(line) == {i \in 1..Len(file_contents) : file_contents[i] = line}

\* Where the dependencies header is, or just past the end without one
DepHeaderAt ==
    IF Positions(DepHeader) # {}
    THEN CHOOSE i \in Positions(DepHeader) : TRUE
    ELSE Len(file_contents) + 1

TopSection == {i \in 1..Len(file_contents) : 1 < i /\ i < DepHeaderAt}
DepSection == {i \in 1..Len(file_contents) : DepHeaderAt < i}

\* C14: every record is rendered exactly once, under the top-level header
\* when requested and under the dependencies header when not; the top-level
\* header comes first and no record is in both sections.
C14_EachRecordOnceInItsSection ==
    Rendered =>
        /\ file_contents[1] = TopHeader
        /\ Cardinality(Positions(TopHeader)) = 1
        /\ Cardinality(Positions(DepHeader)) <= 1
        /\ Cardinality(TopSection) + Cardinality(DepSection) = Len(requirements)
        /\ \A k \in 1..Len(requirements) :
              /\ Cardinality(Positions(LineOf(requirements[k]))) = 1
              /\ Positions(LineOf(requirements[k])) \subseteq
                     (IF requirements[k].requested THEN TopSection ELSE DepSection)

C14_Witness ==
    /\ Rendered
    /\ Len(requirements) = 3
    /\ \E j, k \in 1..Len(requirements) :
          requirements[j].requested /\ ~requirements[k].requested

\* C15: within a section the records are in the order of their lower-cased
\* names, compared as strings, whatever the rest of the line.
C15_SectionsSortedByName ==
    Rendered =>
        \A j, k \in 1..Len(requirements) :
            (/\ requirements[j].requested = requirements[k].requested
             /\ StrLess(Lower(requirements[j].name), Lower(requirements[k].name)))
            => \A a \in Positions(LineOf(requirements[j])),
                  b \in Positions(LineOf(requirements[k])) : a < b

Permuted(p) == [i \in 1..Len(requirements) |-> requirements[p[i]]]

\* C16: every permutation of the records renders to the same lines.
C16_InputOrderIrrelevant ==
    Rendered =>
        \A p \in Permutations(1..Len(requirements)) :
            build_reqirements_file_contents(Permuted(p), arguments.hashes)
                = file_contents

C16_Witness ==
    /\ Rendered
    /\ Len(requirements) = 3
    /\ requirements[1].name = Zeta
    /\ requirements[2].name = alpha
    /\ requirements[3].name = Beta
    /\ \A k \in 1..3 : requirements[k].requested

\* C17: the dependencies header is in the output exactly when some record
\* has requested = false.
C17_DepHeaderIffTransitive ==
    Rendered =>
        (Positions(DepHeader) # {}
            <=> \E k \in 1..Len(requirements) : ~requirements[k].requested)

C17_Witness ==
    /\ Rendered
    /\ Len(requirements) >= 2
    /\ \A k \in 1..Len(requirements) : requirements[k].requested
    /\ Positions(DepHeader) = {}

\* C18: every header line is immediately followed by a requirement line,
\* also when no record is requested.
C18_NoEmptySection ==
    Rendered =>
        \A i \in 1..Len(file_contents) :
            IsHeader(file_contents[i]) =>
                /\ i < Len(file_contents)
                /\ ~IsHeader(file_contents[i + 1])

\* C19: the requirement lines are exactly the records' lines: name==version
\* without hashes; with hashes followed by the continuation and the record's
\* hash as it is, for requested and transitive records alike.
C19_LineFormat ==
    Rendered =>
        /\ \A k \in 1..Len(requirements) :
              LineOf(requirements[k]) \in Range(file_contents)
        /\ \A i \in 1..Len(file_contents) :
              IsHeader(file_contents[i])
                 \/ \E k \in 1..Len(requirements) :
                       file_contents[i] = LineOf(requirements[k])

C19_Witness ==
    /\ Rendered
    /\ arguments.hashes
    /\ \E j, k \in 1..Len(requirements) :
          requirements[j].requested /\ ~requirements[k].requested

-----------------------------------------------------------------------------
(* Properties of main *)

\* The report has entries and one of them lacks a required field
HasMalformedEntry(report) ==
    \E i \in 1..Len(GetInstall(report)) : GetInstall(report)[i] \in MalformedEntries

\* C13: when an entry of the install collection lacks a required field,
\* wherever it stands, read_pip_report raises and returns no list: no output
\* file is written and no snapshot, removal or installation is issued.
C13_MalformedEntryAborts ==
    HasMalformedEntry(pip_report) =>
        /\ pc \in {"read_pip_report", "KeyError"}
        /\ dependencies = None
        /\ requirements = <<>>
        /\ file_contents = <<>>
        /\ output_file = None
        /\ Issued(IsSnapshot) = {}
        /\ Issued(IsRemoval) = {}
        /\ Issued(IsInstallation) = {}

C13_Witness ==
    /\ pc = "KeyError"
    /\ Len(pip_report.install) = 2
    /\ pip_report.install[1] \in WellFormedEntries
    /\ pip_report.install[2] \in MalformedEntries

\* The report was captured and read_pip_report has returned
ReportRead ==
    /\ Len(calls) >= 1
    /\ calls[1].outcome = "ok"
    /\ pc \notin {"read_pip_report", "KeyError"}

\* C21: when read_pip_report returns None, main ends the run: no list is
\* handed on, no output file is written, and no snapshot, removal or
\* installation is issued, with --sync and without.
C21_NothingToPinIsTerminal ==
    (ReportRead /\ dependencies = None) =>
        /\ pc \in {"returned", "SystemExit"}
        /\ requirements = <<>>
        /\ file_contents = <<>>
        /\ output_file = None
        /\ Issued(IsSnapshot) = {}
        /\ Issued(IsRemoval) = {}
        /\ Issued(IsInstallation) = {}

C21_Witness ==
    /\ ReportRead
    /\ dependencies = None
    /\ pc = "SystemExit"
    /\ arguments.sync
    /\ "install" \in DOMAIN pip_report

\* C26: while sync or pin_requirements runs, the list main passed in stays
\* as read_pip_report returned it, element for element and field for field,
\* and once get_installed_packages has built the installed list that list
\* stays as it is too.
C26_RecordsNotMutated ==
    [][(pc \in {"sync", "remove_additional_packages", "install_pip_report_output",
                "pin_requirements"})
          => (/\ requirements' = requirements
              /\ dependencies' = Some(requirements)
              /\ (pc # "sync" => installed_packages' = installed_packages))]_vars

C26_Witness ==
    /\ pc = "done"
    /\ ~arguments.sync
    /\ arguments.hashes
    /\ ~output_file.isNone
    /\ Len(requirements) = 2
    /\ requirements[1].name = tomli
    /\ requirements[2].name = cowsay
    /\ requirements[1].hash = Some(sha256_1234)

\* The three lines of the pinned cool_package, each ended by a newline
CoolOutput ==
    <<"#", " ", "T", "o", "p", " ", "l", "e", "v", "e", "l", " ", "r", "e",
      "q", "u", "i", "r", "e", "m", "e", "n", "t", "s", "\n", "c", "o", "o",
      "l", "_", "p", "a", "c", "k", "a", "g", "e", "=", "=", "2", ".", "0",
      ".", "1", " ", "\\", "\n", " ", " ", " ", " ", "-", "-", "h", "a", "s",
      "h", "=", "s", "h", "a", "2", "5", "6", ":", "a", "b", "c", "1", "2",
      "3", "\n">>

\* C20: pinning, with hashes, the report of the single requested package
\* cool_package 2.0.1 with hash sha256=abc123 writes exactly the top-level
\* header, `cool_package==2.0.1 \` and `    --hash=sha256:abc123`, each
\* followed by one newline.
C20_EndToEndPin ==
    (/\ pc = "done"
     /\ pip_report = CoolReport
     /\ ~arguments.sync
     /\ arguments.hashes)
    => output_file = Some(CoolOutput)

C20_Witness ==
    /\ pc = "done"
    /\ pip_report = CoolReport
    /\ ~arguments.sync
    /\ arguments.hashes
    /\ ~output_file.isNone

-----------------------------------------------------------------------------
(* Properties of parse_args, validate_pip_version and the start of main *)

\* The version numbers that are lists of integers, as those lists
Components ==
    (v22_2 :> <<22, 2>>) @@ (v22_1 :> <<22, 1>>) @@ (v23_1 :> <<23, 1>>)
        @@ (v20_1_3 :> <<20, 1, 3>>) @@ (v34_2_9 :> <<34, 2, 9>>)
        @@ (v22 :> <<22>>) @@ (v22_10 :> <<22, 10>>) @@ (v9_0_1 :> <<9, 0, 1>>)

\* The list is at least [22, 2]
AtLeast22_2(components) ==
    \/ components[1] > 22
    \/ components[1] = 22 /\ Len(components) >= 2 /\ components[2] >= 2

\* The version that pip --version printed
Printed(version) == pip_version_output = Some(PipVersionOutput(version))

\* C22: validate_pip_version returns True exactly when the version number
\* printed by pip --version, as a list of integers, is at least [22, 2]
\* (22.2, 23.1 and 34.2.9 are accepted, 22.1 and 20.1.3 rejected), and after
\* a rejected version main has exited with the pip --version call as the
\* only command issued
C22_PipVersionValidated ==
    /\ \A version \in DOMAIN Components :
          Printed(version) =>
              /\ validate_pip_version(pip_version_output.value)
                     = [kind |-> "return", value |-> AtLeast22_2(Components[version])]
              /\ ~AtLeast22_2(Components[version]) =>
                     /\ pc = "SystemExit"
                     /\ Len(calls) = 1
                     /\ calls[1].command = PipVersionCommand
    /\ \A version \in {v22_2, v23_1, v34_2_9} :
          Printed(version) => validate_pip_version(pip_version_output.value).value
    /\ \A version \in {v22_1, v20_1_3} :
          Printed(version) => ~validate_pip_version(pip_version_output.value).value

C22_Witness ==
    /\ Printed(v22_1)
    /\ pc = "SystemExit"
    /\ calls = <<Call(PipVersionCommand, <<>>, TRUE, "ok")>>

\* The input file of the run: the one given, or else the default file
InputFile ==
    IF ~argv.file.isNone THEN argv.file
    ELSE IF files[requirements_in] # "absent" THEN Some(requirements_in)
    ELSE IF files[pyproject_toml] # "absent" THEN Some(pyproject_toml)
    ELSE None

\* No input file given and neither default file in the working directory
NoFileFound ==
    /\ argv.file.isNone
    /\ files[requirements_in] = "absent"
    /\ files[pyproject_toml] = "absent"

\* An optional dependency named together with an input file that is not a
\* .toml file
DependencyWithoutToml ==
    /\ ~argv.dependency.isNone
    /\ argv.dependency.value # <<>>
    /\ ~InputFile.isNone
    /\ InputFile.value \notin {pyproject_toml, missing_toml}

\* The input path is not an existing file
NotAFile == ~InputFile.isNone /\ files[InputFile.value] # "file"

\* C23: when no input file is given and no default file exists, or an
\* optional dependency is named with an input file that is not a .toml
\* file, or the input path is not an existing file, parse_args ends in
\* SystemExit and no pip command has been run
C23_ParseArgsExits ==
    (pc # "parse_args" /\ (NoFileFound \/ DependencyWithoutToml \/ NotAFile))
        => (pc = "SystemExit" /\ calls = <<>> /\ arguments = NoArguments)

C23_Witness ==
    /\ pc = "SystemExit"
    /\ calls = <<>>
    /\ argv.file = Some(tests_directory)
    /\ argv.dependency = None
    /\ files[requirements_in] = "file"

====
